---- MODULE Spec2Model ----
(***************************************************************************)
(* cert-monitor (cmd/cert-monitor/main.go): the run of main over the       *)
(* configured domains, getDomain, sendEmail and isDateWithinDays.          *)
(*                                                                         *)
(* Strings are sequences of tokens, so that concatenation and splitting    *)
(* on ":" are computed.  A text is the sequence of its lines (the string   *)
(* split on "\n"); a line is a sequence of tokens.  A time.Time is a       *)
(* record [instant, offset]: ticks since day 0, 00:00 UTC, and the offset  *)
(* of its location east of UTC, in ticks.                                  *)
(***************************************************************************)
EXTENDS Integers, Sequences, FiniteSets, TLC

VARIABLES
    Domains,      \* config.Domains
    Threshold,    \* config.Threshold
    printFlag,    \* *printFlag
    summaryFlag,  \* *summaryFlag
    pc,           \* position of main: "loop", "dial", "alert", "summary", "done"
                  \* ("eval" when the evaluator is applied alone)
    i,            \* index of the range loop over config.Domains (1-based)
    peer,         \* how the dialed peer behaves: "none", "answers", "silent"
    domains,      \* var domains []Domain
    outbox,       \* every DialAndSend call: [subject, contents, delivered]
    stdout,       \* every fmt.Println call: its text
    slogErrors,   \* every slog.Error call: its message
    dialed,       \* history: every address handed to tls.Dial
    returned,     \* history: every return of getDomain: [err, domain]
    domain,       \* the loop body's local: what getDomain returned
    evalArgs,     \* the evaluator applied alone: its arguments
    evalDone,     \* ... whether it has been applied
    evalRet       \* ... what it and its caller produced

vars == <<Domains, Threshold, printFlag, summaryFlag, pc, i, peer, domains,
          outbox, stdout, slogErrors, dialed, returned, domain,
          evalArgs, evalDone, evalRet>>

mainVars == <<Domains, Threshold, printFlag, summaryFlag, pc, i, peer, domains,
              outbox, stdout, slogErrors, dialed, returned, domain>>

evalVars == <<evalArgs, evalDone, evalRet>>

----------------------------------------------------------------------------
(* Bounds *)

MaxDomains == 3

MaxThreshold == 1

MaxDay == 2

TicksPerDay == 2

----------------------------------------------------------------------------
(* Time and dates *)

\* The calendar dates the model prints; day d is Calendar[d + 1].
Calendar == <<"2023-12-30", "2023-12-31", "2024-01-01", "2024-01-02",
              "2024-01-03", "2024-01-04", "2024-01-05", "2024-01-06",
              "2024-01-07", "2024-01-08", "2024-01-09", "2024-01-10">>

\* Strings handed to time.Parse that are not in the layout 2006-01-02.
MalformedDates == {"", "01/02/2024"}

\* Seconds of time.Time{}: January 1, year 1, 00:00 UTC, long before day 0.
ZeroInstant == -1000

ZeroTime == [instant |-> ZeroInstant, offset |-> 0]

\* The offsets of the host's local zone the model tries (ticks east of UTC).
Zones == {-1, 0, 1}

\* The calendar day of t in t's own location.
DayOf(t) == (t.instant + t.offset) \div TicksPerDay

\* t.Format("2006-01-02"): the date of t in its location, the time of day dropped.
Format(t) == Calendar[DayOf(t) + 1]

\* time.Parse("2006-01-02", s): midnight UTC of the date, or the zero Time and an error.
Parse(s) ==
    IF \E d \in 1..Len(Calendar) : Calendar[d] = s
    THEN [t   |-> [instant |-> ((CHOOSE d \in 1..Len(Calendar) : Calendar[d] = s) - 1)
                                   * TicksPerDay,
                   offset  |-> 0],
          err |-> FALSE]
    ELSE [t |-> ZeroTime, err |-> TRUE]

\* t.AddDate(0, 0, days): the same wall clock, days later, in t's location.
AddDate(t, days) ==
    [instant |-> ((t.instant + t.offset) + days * TicksPerDay) - t.offset,
     offset  |-> t.offset]

\* t.After(u): t's instant is strictly later than u's.
After(t, u) == t.instant > u.instant

\* isDateWithinDays, today being what time.Now() returned.  A parse error is
\* logged and the zero Time is compared.
isDateWithinDays(today, targetDate, days) ==
    After(AddDate(today, days), Parse(targetDate).t)

----------------------------------------------------------------------------
(* Strings *)

\* The zero string "", as a text: one empty line.
EmptyString == << <<>> >>

\* strings.Join(strs, "\n"), each element a text.
RECURSIVE Join(_)
Join(strs) ==
    IF strs = <<>> THEN EmptyString
    ELSE IF Len(strs) = 1 THEN strs[1]
    ELSE strs[1] \o Join(Tail(strs))

\* fmt.Sprintf("%v", b)
BoolString(b) == IF b THEN "true" ELSE "false"

\* The address getDomain hands to tls.Dial.
Address(cfgDomain) == cfgDomain \o <<":", "443">>

\* net.SplitHostPort, as tls.Dial applies it to the address: the port follows
\* the last colon, and a colon left in the host is "too many colons in address".
SplitHostPort(addr) ==
    LET colons == {k \in 1..Len(addr) : addr[k] = ":"}
    IN  IF colons = {}
        THEN [err |-> TRUE, host |-> <<>>, port |-> <<>>]
        ELSE LET j    == CHOOSE k \in colons : \A m \in colons : m <= k
                 host == SubSeq(addr, 1, j - 1)
                 port == SubSeq(addr, j + 1, Len(addr))
             IN  IF \E k \in 1..Len(host) : host[k] = ":"
                 THEN [err |-> TRUE, host |-> <<>>, port |-> <<>>]
                 ELSE [err |-> FALSE, host |-> host, port |-> port]

----------------------------------------------------------------------------
(* getDomain *)

\* The zero Domain, &Domain{}.
NilDomain ==
    [CommonName |-> "", DNSNames |-> <<>>, Expires |-> "",
     IsExpiringSoon |-> FALSE, Summary |-> EmptyString]

\* The lines "    <dnsName>" of the summary, in the certificate's order.
RECURSIVE DNSLines(_)
DNSLines(names) ==
    IF names = <<>> THEN <<>>
    ELSE << << <<"    ", names[1]>> >> >> \o DNSLines(Tail(names))

\* getDomain after d.Expires is set: the expiry decision and the summary.
evaluateDomain(d, today, threshold) ==
    LET soon == IF isDateWithinDays(today, d.Expires, threshold)
                THEN TRUE ELSE d.IsExpiringSoon
        summary == << << <<d.CommonName>> >>,
                      << <<"  Expiring Soon: ", BoolString(soon)>> >>,
                      << <<"  Expires:       ", d.Expires>> >>,
                      << <<"  DNS Alt Names:">> >> >>
                   \o DNSLines(d.DNSNames)
    IN  [d EXCEPT !.IsExpiringSoon = soon, !.Summary = Join(summary)]

\* getDomain once the handshake has succeeded and the peer presented cert.
getDomain(cert, today, threshold) ==
    evaluateDomain([NilDomain EXCEPT !.CommonName = cert.CommonName,
                                     !.DNSNames   = cert.DNSNames,
                                     !.Expires    = Format(cert.NotAfter)],
                   today, threshold)

----------------------------------------------------------------------------
(* sendEmail and the decisions of main *)

\* Variant: a failed DialAndSend tried once more.
sendEmailRetrying(subject, contents, delivered) ==
    LET m == [subject |-> subject, contents |-> contents, delivered |-> delivered]
    IN  [sent   |-> IF delivered THEN <<m>> ELSE <<m, m>>,
         errors |-> IF delivered THEN <<>> ELSE <<"failed to send email">>]

\* sendEmail: one DialAndSend, its error logged and dropped.
sendEmail(subject, contents, delivered) ==
    [sent   |-> << [subject |-> subject, contents |-> contents,
                    delivered |-> delivered] >>,
     errors |-> IF delivered THEN <<>> ELSE <<"failed to send email">>]

\* The subject of a domain's warning.
AlertSubject(cfgDomain) == <<"certificate expiration warning: ">> \o cfgDomain

SummarySubject == <<"certificate summary">>

\* Variant: the warning decision without the print flag.
ShouldAlertIgnoringPrint(d, print) == d.IsExpiringSoon

\* Variant: the warning decision without the expiry flag.
ShouldAlertAlways(d, print) == ~print

\* Whether main mails a warning for the domain it has just got.
ShouldAlert(d, print) == d.IsExpiringSoon /\ ~print

\* Variant: a break in place of the continue.
AfterDialErrorBreak(idx) == [pc |-> "summary", i |-> idx + 1]

\* The continue after a failed getDomain.
AfterDialError(idx) == [pc |-> "loop", i |-> idx + 1]

\* Variant: the Domain put in front.
CollectFront(ds, d) == <<d>> \o ds

\* domains = append(domains, *domain)
Collect(ds, d) == Append(ds, d)

RECURSIVE SummaryLines(_)
SummaryLines(ds) ==
    IF ds = <<>> THEN <<>>
    ELSE <<ds[1].Summary, EmptyString>> \o SummaryLines(Tail(ds))

\* Variant: the loop over domains stopping one short.
BuildSummaryOffByOne(ds) == Join(SummaryLines(SubSeq(ds, 1, Len(ds) - 1)))

\* The summary main builds from the domains it collected.
BuildSummary(ds) == Join(SummaryLines(ds))

----------------------------------------------------------------------------
(* The environment of a run *)

\* The endpoints a configuration names: bare hosts, and a host with a port.
Endpoints == { <<"a.test">>, <<"c.test">>, <<"b.test", ":", "8443">> }

RECURSIVE SeqsUpTo(_, _)
SeqsUpTo(S, n) ==
    IF n = 0 THEN { <<>> }
    ELSE LET shorter == SeqsUpTo(S, n - 1)
         IN  shorter \cup { Append(s, x) : s \in shorter, x \in S }

\* The leaf certificates a peer may present.
Certs ==
    { [CommonName |-> "a.test", DNSNames |-> <<"a.test", "www.a.test">>,
       NotAfter   |-> [instant |-> 2 * TicksPerDay + 1, offset |-> 0]],
      [CommonName |-> "b.test", DNSNames |-> <<>>,
       NotAfter   |-> [instant |-> 1, offset |-> 0]] }

\* What time.Now() may return during a run.
Nows == { [instant |-> TicksPerDay + 1, offset |-> 0],
          [instant |-> 2 * TicksPerDay, offset |-> 0] }

NoEvalArgs == [targetDate |-> "", days |-> 0, today |-> ZeroTime]

NoEvalRet == [value |-> FALSE, err |-> FALSE, domain |-> NilDomain]

----------------------------------------------------------------------------
(* main *)

Init ==
    /\ Domains \in SeqsUpTo(Endpoints, MaxDomains)
    /\ Threshold \in 0..MaxThreshold
    /\ printFlag \in BOOLEAN
    /\ summaryFlag \in BOOLEAN
    /\ pc = "loop"
    /\ i = 1
    /\ peer = "none"
    /\ domains = <<>>
    /\ outbox = <<>>
    /\ stdout = <<>>
    /\ slogErrors = <<>>
    /\ dialed = <<>>
    /\ returned = <<>>
    /\ domain = NilDomain
    /\ evalArgs = NoEvalArgs
    /\ evalDone = FALSE
    /\ evalRet = NoEvalRet

\* The loop takes the next configured domain and getDomain dials it.
LoopEnter ==
    /\ pc = "loop"
    /\ i <= Len(Domains)
    /\ dialed' = Append(dialed, Address(Domains[i]))
    /\ peer' \in IF SplitHostPort(Address(Domains[i])).err
                 THEN {"none"} ELSE {"answers", "silent"}
    /\ pc' = "dial"
    /\ UNCHANGED <<Domains, Threshold, printFlag, summaryFlag, i, domains, outbox,
                   stdout, slogErrors, returned, domain, evalVars>>

\* tls.Dial returns an error: getDomain returns it, main logs it and continues.
DialError ==
    /\ pc = "dial"
    /\ peer # "silent"
    /\ returned' = Append(returned, [err |-> TRUE, domain |-> NilDomain])
    /\ slogErrors' = Append(slogErrors, "failed to dial domain")
    /\ pc' = AfterDialError(i).pc
    /\ i' = AfterDialError(i).i
    /\ peer' = "none"
    /\ UNCHANGED <<Domains, Threshold, printFlag, summaryFlag, domains, outbox,
                   stdout, dialed, domain, evalVars>>

\* tls.Dial returns a connection: getDomain reads the leaf certificate and
\* returns the Domain, main appends it and decides on the warning.
DialConnected ==
    /\ pc = "dial"
    /\ peer = "answers"
    /\ \E cert \in Certs, today \in Nows :
         LET d == getDomain(cert, today, Threshold)
         IN  /\ returned' = Append(returned, [err |-> FALSE, domain |-> d])
             /\ domains' = Collect(domains, d)
             /\ IF ShouldAlert(d, printFlag)
                THEN pc' = "alert" /\ i' = i /\ domain' = d
                ELSE pc' = "loop" /\ i' = i + 1 /\ domain' = NilDomain
    /\ peer' = "none"
    /\ UNCHANGED <<Domains, Threshold, printFlag, summaryFlag, outbox, stdout,
                   slogErrors, dialed, evalVars>>

\* sendEmail for the domain's warning; delivery succeeds or fails.
SendAlert ==
    /\ pc = "alert"
    /\ \E delivered \in BOOLEAN :
         LET r == sendEmail(AlertSubject(Domains[i]), domain.Summary, delivered)
         IN  /\ outbox' = outbox \o r.sent
             /\ slogErrors' = slogErrors \o r.errors
    /\ pc' = "loop"
    /\ i' = i + 1
    /\ domain' = NilDomain
    /\ UNCHANGED <<Domains, Threshold, printFlag, summaryFlag, peer, domains,
                   stdout, dialed, returned, evalVars>>

\* The range loop is over.
LoopExit ==
    /\ pc = "loop"
    /\ i > Len(Domains)
    /\ pc' = "summary"
    /\ UNCHANGED <<Domains, Threshold, printFlag, summaryFlag, i, peer, domains,
                   outbox, stdout, slogErrors, dialed, returned, domain, evalVars>>

\* No summary was asked for.
SummarySkip ==
    /\ pc = "summary"
    /\ ~summaryFlag
    /\ pc' = "done"
    /\ UNCHANGED <<Domains, Threshold, printFlag, summaryFlag, i, peer, domains,
                   outbox, stdout, slogErrors, dialed, returned, domain, evalVars>>

\* The summary is printed.
SummaryPrint ==
    /\ pc = "summary"
    /\ summaryFlag
    /\ printFlag
    /\ stdout' = Append(stdout, BuildSummary(domains))
    /\ pc' = "done"
    /\ UNCHANGED <<Domains, Threshold, printFlag, summaryFlag, i, peer, domains,
                   outbox, slogErrors, dialed, returned, domain, evalVars>>

\* The summary is mailed; delivery succeeds or fails.
SummaryEmail ==
    /\ pc = "summary"
    /\ summaryFlag
    /\ ~printFlag
    /\ \E delivered \in BOOLEAN :
         LET r == sendEmail(SummarySubject, BuildSummary(domains), delivered)
         IN  /\ outbox' = outbox \o r.sent
             /\ slogErrors' = slogErrors \o r.errors
    /\ pc' = "done"
    /\ UNCHANGED <<Domains, Threshold, printFlag, summaryFlag, i, peer, domains,
                   stdout, dialed, returned, domain, evalVars>>

Next ==
    \/ LoopEnter
    \/ DialError
    \/ DialConnected
    \/ SendAlert
    \/ LoopExit
    \/ SummarySkip
    \/ SummaryPrint
    \/ SummaryEmail

Spec == Init /\ [][Next]_vars

\* main is one sequential process: a step it can take, it takes.  Nothing
\* bounds the wait for a peer, so a silent peer leaves no step to take.
LiveSpec == Spec /\ WF_vars(Next)

----------------------------------------------------------------------------
(* The evaluator applied alone, to any date string *)

\* The strings handed to isDateWithinDays: dates, and strings that are none.
DateStrings ==
    { Calendar[d + 1] : d \in 0..(MaxDay + MaxThreshold + 1) } \cup MalformedDates

\* The values of time.Now(): any tick of days 1..MaxDay, in any zone tried.
Times ==
    { [instant |-> n, offset |-> z] :
        n \in TicksPerDay..((MaxDay + 1) * TicksPerDay - 1), z \in Zones }

EvalInit ==
    /\ evalArgs \in [targetDate : DateStrings, days : 0..MaxThreshold, today : Times]
    /\ evalDone = FALSE
    /\ evalRet = NoEvalRet
    /\ Domains = <<>>
    /\ Threshold = 0
    /\ printFlag = FALSE
    /\ summaryFlag = FALSE
    /\ pc = "eval"
    /\ i = 1
    /\ peer = "none"
    /\ domains = <<>>
    /\ outbox = <<>>
    /\ stdout = <<>>
    /\ slogErrors = <<>>
    /\ dialed = <<>>
    /\ returned = <<>>
    /\ domain = NilDomain

\* isDateWithinDays is applied, and getDomain finishes the Domain with it.
Evaluate ==
    /\ pc = "eval"
    /\ ~evalDone
    /\ evalDone' = TRUE
    /\ evalRet' =
         [value  |-> isDateWithinDays(evalArgs.today, evalArgs.targetDate, evalArgs.days),
          err    |-> FALSE,
          domain |-> evaluateDomain([NilDomain EXCEPT !.Expires = evalArgs.targetDate],
                                    evalArgs.today, evalArgs.days)]
    /\ slogErrors' = IF Parse(evalArgs.targetDate).err
                     THEN Append(slogErrors, "failed to parse expiration date")
                     ELSE slogErrors
    /\ UNCHANGED <<evalArgs, Domains, Threshold, printFlag, summaryFlag, pc, i, peer,
                   domains, outbox, stdout, dialed, returned, domain>>

EvalNext == Evaluate

EvalSpec == EvalInit /\ [][EvalNext]_vars

----------------------------------------------------------------------------
(* Properties *)

\* The mails of the outbox that are warnings, and those that are summaries.
IsSummaryMail(m) == m.subject = <<"certificate summary">>

IsAlertMail(m) == ~IsSummaryMail(m)

AlertMails == SelectSeq(outbox, IsAlertMail)

SummaryMails == SelectSeq(outbox, IsSummaryMail)

\* A mail without its delivery outcome.
Envelope(m) == [subject |-> m.subject, contents |-> m.contents]

\* The indices 1..n of the getDomain calls that returned a Domain.
Succeeded(n) == {k \in 1..n : ~returned[k].err}

\* The warnings due for the first n getDomain returns, in order.
RECURSIVE AlertsDue(_)
AlertsDue(n) ==
    IF n = 0 THEN <<>>
    ELSE AlertsDue(n - 1) \o
         (IF ~returned[n].err /\ returned[n].domain.IsExpiringSoon
          THEN << [subject  |-> <<"certificate expiration warning: ">> \o Domains[n],
                   contents |-> returned[n].domain.Summary] >>
          ELSE <<>>)

\* The Domains returned by the first n getDomain calls, in order.
RECURSIVE DomainsGot(_)
DomainsGot(n) ==
    IF n = 0 THEN <<>>
    ELSE DomainsGot(n - 1) \o
         (IF returned[n].err THEN <<>> ELSE <<returned[n].domain>>)

\* The summary text due: each returned Domain's summary and a blank line, in
\* order; the empty string when no getDomain call returned a Domain.
RECURSIVE SummaryTextOf(_)
SummaryTextOf(ds) ==
    IF ds = <<>> THEN <<>>
    ELSE ds[1].Summary \o << <<>> >> \o SummaryTextOf(Tail(ds))

SummaryDue ==
    IF Succeeded(Len(returned)) = {} THEN << <<>> >>
    ELSE SummaryTextOf(DomainsGot(Len(returned)))

\* The getDomain returns whose warning decision main has acted on.
Settled == IF pc = "alert" THEN Len(returned) - 1 ELSE Len(returned)

\* The port an endpoint string names, <<>> when it names none.
NamedPort(cfgDomain) ==
    IF \E k \in 1..Len(cfgDomain) : cfgDomain[k] = ":"
    THEN SplitHostPort(cfgDomain).port ELSE <<>>

NamedHost(cfgDomain) ==
    IF \E k \in 1..Len(cfgDomain) : cfgDomain[k] = ":"
    THEN SplitHostPort(cfgDomain).host ELSE cfgDomain

\* C1: at day granularity, isDateWithinDays returns true if and only if
\* now + thresholdDays >= notAfterDate, equality included.  (Fails: After is strict and compares instants.)
C1_WithinIffNotBefore ==
    (evalDone /\ ~Parse(evalArgs.targetDate).err)
        => (evalRet.value <=>
              DayOf(evalArgs.today) + evalArgs.days >= DayOf(Parse(evalArgs.targetDate).t))

\* C2: in print-only mode sendEmail is never invoked, whatever the endpoints,
\* the probe outcomes, the expiry results and the summary flag.
C2_PrintNeverSends == printFlag => outbox = <<>>

C2_Witness ==
    /\ printFlag /\ summaryFlag /\ pc = "done"
    /\ \E k \in 1..Len(returned) : ~returned[k].err /\ returned[k].domain.IsExpiringSoon
    /\ \E k \in 1..Len(returned) : returned[k].err

\* The dial history is the configured endpoints up to the loop's position, and
\* all of them once the loop is left.
C3_ProbedPrefix ==
    /\ Len(dialed) <= Len(Domains)
    /\ \A k \in 1..Len(dialed) : SubSeq(dialed[k], 1, Len(Domains[k])) = Domains[k]
    /\ pc = "loop" => Len(dialed) = i - 1 /\ Len(returned) = i - 1
    /\ pc = "dial" => Len(dialed) = i /\ Len(returned) = i - 1
    /\ pc = "alert" => Len(dialed) = i /\ Len(returned) = i
    /\ pc \in {"summary", "done"} =>
          Len(dialed) = Len(Domains) /\ Len(returned) = Len(Domains)

\* C3: every configured endpoint is dialed exactly once, in configured order,
\* and a failed probe of endpoint k is followed by the probe of k+1: the loop is
\* left only when all were dialed, and it is left unless a peer stays silent.
C3_AllProbedInOrder == []C3_ProbedPrefix /\ <>(peer = "silent" \/ pc = "done")

C3_Witness ==
    /\ pc = "done"
    /\ Len(returned) >= 3
    /\ returned[1].err /\ ~returned[2].err /\ returned[3].err

\* C4: a requested summary is emitted exactly once, at the end of the run,
\* printed in print-only mode and mailed as "certificate summary" otherwise;
\* its text is the summaries of exactly the endpoints probed successfully, in
\* configured order; a summary not requested is never emitted.
C4_SummaryOnceAtEnd ==
    /\ pc # "done" => SummaryMails = <<>> /\ stdout = <<>>
    /\ (pc = "done" /\ ~summaryFlag) => SummaryMails = <<>> /\ stdout = <<>>
    /\ (pc = "done" /\ summaryFlag /\ printFlag) =>
          /\ stdout = <<SummaryDue>>
          /\ SummaryMails = <<>>
    /\ (pc = "done" /\ summaryFlag /\ ~printFlag) =>
          /\ stdout = <<>>
          /\ Len(SummaryMails) = 1
          /\ SummaryMails[1].contents = SummaryDue
          /\ outbox[Len(outbox)] = SummaryMails[1]

C4_Witness ==
    /\ pc = "done" /\ summaryFlag /\ ~printFlag
    /\ Len(returned) >= 3
    /\ ~returned[1].err /\ returned[2].err /\ ~returned[3].err
    /\ returned[1].domain # returned[3].domain
    /\ Len(AlertMails) >= 2

\* C5: outside print-only mode a warning is mailed for an endpoint if and only
\* if getDomain returned its Domain and the Domain is expiring soon: once, before
\* the next endpoint is dialed, subject naming the configured endpoint, body the
\* Domain's summary; the summary flag changes none of it.
C5_AlertIffExpiring ==
    ~printFlag =>
        /\ Len(AlertMails) = Len(AlertsDue(Settled))
        /\ \A k \in 1..Len(AlertMails) : Envelope(AlertMails[k]) = AlertsDue(Settled)[k]

C5_Witness ==
    /\ ~printFlag /\ summaryFlag /\ pc = "dial"
    /\ Len(returned) = 2
    /\ ~returned[1].err /\ returned[1].domain.IsExpiringSoon
    /\ ~returned[2].err /\ ~returned[2].domain.IsExpiringSoon
    /\ Len(outbox) = 1

\* C6 as stated: at the end of the run the collection holds one report per
\* configured endpoint, failed ones included.  (Fails: main appends nothing
\* for a failed probe.)
C6_OneReportPerEndpoint == pc = "done" => Len(domains) = Len(Domains)

\* C6 amended: at the end of the run the collection holds exactly the Domains
\* getDomain returned, in configured order: one per successfully probed
\* endpoint, none for a failed one.
C6_OneReportPerSuccess ==
    pc \in {"summary", "done"} =>
        /\ domains = DomainsGot(Len(returned))
        /\ Len(domains) = Len(Domains) - Cardinality({k \in 1..Len(returned) : returned[k].err})

C6_Witness ==
    /\ pc = "done"
    /\ Len(Domains) = 3
    /\ Len(domains) = 2
    /\ domains[1] # domains[2]

\* A step that adds a failed delivery adds one DialAndSend and moves main on.
C7_FailedStep ==
    (Len(outbox') > Len(outbox) /\ ~outbox'[Len(outbox')].delivered) =>
        /\ Len(outbox') = Len(outbox) + 1
        /\ pc = "alert" => pc' = "loop" /\ i' = i + 1
        /\ pc = "summary" => pc' = "done"

\* At the end every endpoint was probed and every mail due was attempted once.
C7_AtEnd ==
    (pc = "done" /\ ~printFlag) =>
        /\ Len(returned) = Len(Domains)
        /\ Len(outbox) = Len(AlertsDue(Len(returned))) + (IF summaryFlag THEN 1 ELSE 0)

\* C7: a failed delivery is one DialAndSend and no more, and main goes on from
\* it as from a delivered one: to the next endpoint after a warning, to the end
\* after the summary; at the end every endpoint was probed and every mail due
\* was attempted once.
C7_DeliveryFailureNeverAborts == [][C7_FailedStep]_vars /\ []C7_AtEnd

C7_Witness ==
    /\ pc = "done" /\ summaryFlag
    /\ Len(outbox) = 3
    /\ ~outbox[1].delivered /\ IsAlertMail(outbox[1])
    /\ IsAlertMail(outbox[2])
    /\ ~outbox[3].delivered /\ IsSummaryMail(outbox[3])

\* C8: a malformed date handed to the evaluator is an error for the caller: the
\* endpoint's report is failed and carries no expiring-soon decision to alert on.
\* (Fails: see the zero Time of Parse.)
C8_MalformedDateIsError ==
    (evalDone /\ Parse(evalArgs.targetDate).err)
        => (evalRet.err /\ ~ShouldAlert(evalRet.domain, FALSE))

\* C9: every probe completes, so the run terminates.  (Fails: a silent peer.)
C9_RunTerminates == <>(pc = "done")

\* C10: the address dialed has one host part and one port part, the port the
\* endpoint names, 443 when it names none.  (Fails: ":443" is always appended.)
C10_DialsNamedPort ==
    \A k \in 1..Len(dialed) :
        LET a == SplitHostPort(dialed[k])
        IN  /\ ~a.err
            /\ a.host = NamedHost(Domains[k])
            /\ a.port = (IF NamedPort(Domains[k]) = <<>> THEN <<"443">>
                         ELSE NamedPort(Domains[k]))

====
